---- MODULE Spec2Model ----
(***************************************************************************)
(* The query result cache of src/unnamed/part_004: CacheEntry,             *)
(* CacheRemovalScheduler, CachePutHolder, CacheReadHolder and QueryCache.  *)
(* The LRU store (Common/LRUCache.h) and Chunk are not part of the         *)
(* sources at hand; their operations are written from the store contract   *)
(* of the specification (section 4.B).                                     *)
(***************************************************************************)
EXTENDS Integers, Sequences, FiniteSets, TLC

(***************************************************************************)
(* Bounds of the model and the configuration the cache is run with.        *)
(***************************************************************************)
\* the clock stops advancing at MaxTime
MaxTime == 1
\* insertChunk calls made during a run, on all put holders together
MaxPushes == 2
\* recordQueryRun calls made during a run, by all threads together
MaxRuns == 3
\* CacheEntry objects ever allocated by the factory lambda
MaxEntries == 2
\* QueryCache(cache_size_in_bytes_)
CacheSizeInBytes == 3
\* QueryCache(cache_size_in_bytes_) of a cache smaller than one full entry
SmallCacheSizeInBytes == 1
\* settings.max_query_cache_entry_size (the same for every key)
MaxQueryCacheEntrySize == 3

Keys == {"k1", "k2"}
Holders == {"h1", "h2"}
\* put holders are interchangeable: they are named in the order they are constructed
constructedBefore(h) == IF h = "h2" THEN {"h1"} ELSE {}
\* keys carry the same settings and are interchangeable: the first holder writes k1
keysOf(h) == IF h = "h1" THEN {"k1"} ELSE Keys
Readers == {"r1"}
\* the threads that call recordQueryRun
Callers == {"c1", "c2"}
Entries == 1..MaxEntries

\* settings.query_cache_entry_put_timeout of each key, in clock ticks
EntryPutTimeout(k) == 1

\* a Chunk is the sequence of its rows; the pipeline produces these
ChunkValues == {<<"a">>, <<"b", "c">>}

\* chunks for the writers of results that outgrow the per-entry limit in one push
LargeChunkValues == {<<"a">>, <<"d", "e", "f", "g">>}

\* the null shared_ptr<CacheEntry>
NoEntry == 0
\* std::nullopt for std::optional<TimedCacheKey>
NoTimer == [time |-> 0 - 1, cache_key |-> "none"]
\* the empty Pipe of a read holder that found nothing
EmptyPipe == [nonempty |-> FALSE, rows |-> <<>>]

VARIABLES
    cells,                  \* LRU store: key -> entry (NoEntry when absent)
    lru,                    \* LRU store: keys in recency order, least recent first
    chunks,                 \* CacheEntry::chunks of every entry object
    is_writing,             \* CacheEntry::is_writing of every entry object
    nentries,               \* number of CacheEntry objects allocated so far
    hpc,                    \* position of each put holder
    hkey,                   \* CachePutHolder::cache_key
    can_insert,             \* CachePutHolder::can_insert
    data,                   \* CachePutHolder::data
    htimer,                 \* scheduleRemoval: local timer
    hnotify,                \* scheduleRemoval: top == timer
    rpc,                    \* position of each read holder
    rdata,                  \* CacheReadHolder ctor: local data
    pipe,                   \* CacheReadHolder::pipe
    queue,                  \* CacheRemovalScheduler::queue (the heap array)
    mutex,                  \* CacheRemovalScheduler::mutex: its owner, or "free"
    timer_cv,               \* a notify_one() delivered to the waiting worker
    process_removal_queue,  \* CacheRemovalScheduler::process_removal_queue
    wpc,                    \* position of the worker thread
    awaited_timer,          \* processRemovalQueue: local awaited_timer
    now,                    \* the clock
    times_executed,         \* QueryCache::times_executed
    times_executed_mutex,   \* QueryCache::times_executed_mutex: its owner, or "free"
    cpc,                    \* position of each thread inside recordQueryRun
    ckey,                   \* recordQueryRun: cache_key
    cret,                   \* recordQueryRun: the value read, then the value returned
    max_size,               \* the maximum total weight the LRU store was constructed with
    fpc,                    \* position of the thread running ~QueryCache
    npushed,                \* history: the number of insertChunk calls made so far
    pushed,                 \* history: the chunks handed to insertChunk of a holder whose factory lambda ran
    inserted,               \* history: the holder's factory lambda ran
    overlapped,             \* history: the holder was constructed while another holder of its key was open
    corrupted,              \* history: a data race on the vector of the queue lost an update
    removedBy,              \* history: how each entry left the store: "removed" by store.remove(key),
                            \*          "dropped" by eviction or reset, "none" if it did not
    unserved,               \* history: timers pushed whose key was not removed since the deadline
    returned,               \* history: the values recordQueryRun returned for each key, in order
    wasReset                \* history: reset() completed and no tryPutInCache was made since

vars == <<cells, lru, chunks, is_writing, nentries, hpc, hkey, can_insert, data,
          htimer, hnotify, rpc, rdata, pipe, queue, mutex, timer_cv,
          process_removal_queue, wpc, awaited_timer, now, times_executed,
          npushed, pushed, inserted, overlapped, corrupted, removedBy, unserved,
          times_executed_mutex, cpc, ckey, cret, max_size, fpc, returned, wasReset>>

storeVars == <<cells, lru>>
entryVars == <<chunks, is_writing, nentries>>
holderVars == <<hpc, hkey, can_insert, data, htimer, hnotify>>
readerVars == <<rpc, rdata, pipe>>
schedVars == <<queue, mutex, timer_cv, process_removal_queue, wpc, awaited_timer>>
histVars == <<npushed, pushed, inserted, overlapped, corrupted, removedBy, unserved, wasReset>>
counterVars == <<times_executed, times_executed_mutex, cpc, ckey, cret, returned>>
facadeVars == <<max_size, fpc>>

(***************************************************************************)
(* Chunk and QueryWeightFunction.                                          *)
(***************************************************************************)
\* Chunk::allocatedBytes: one byte per row
allocatedBytes(chunk) == Len(chunk)

RECURSIVE sumBytes(_)
sumBytes(cs) == IF cs = <<>> THEN 0 ELSE allocatedBytes(Head(cs)) + sumBytes(Tail(cs))

\* QueryWeightFunction::operator()
query_weight(e) == sumBytes(chunks[e])

(***************************************************************************)
(* std::priority_queue<TimedCacheKey>: a binary heap kept in a vector,     *)
(* ordered by TimedCacheKey::operator<.  The sequence is the vector;       *)
(* positions below are 0-based as in the library, hence the +1.            *)
(***************************************************************************)
\* TimedCacheKey::operator<
timerLess(a, b) == a.time < b.time

\* TimedCacheKey::operator==
timerEq(a, b) == a.time = b.time

\* std::__push_heap: sift value up from holeIndex while its parent is less
RECURSIVE push_heap(_, _, _, _)
push_heap(first, holeIndex, topIndex, value) ==
    LET parent == (holeIndex - 1) \div 2
    IN  IF holeIndex > topIndex /\ timerLess(first[parent + 1], value)
        THEN push_heap([first EXCEPT ![holeIndex + 1] = first[parent + 1]],
                       parent, topIndex, value)
        ELSE [first EXCEPT ![holeIndex + 1] = value]

\* std::__adjust_heap, first loop: move the hole down along the larger child
RECURSIVE adjust_down(_, _, _)
adjust_down(first, holeIndex, len) ==
    IF holeIndex < (len - 1) \div 2
    THEN LET right == 2 * (holeIndex + 1)
             child == IF timerLess(first[right + 1], first[right]) THEN right - 1 ELSE right
         IN  adjust_down([first EXCEPT ![holeIndex + 1] = first[child + 1]], child, len)
    ELSE [first |-> first, hole |-> holeIndex]

\* std::__adjust_heap: the loop, the lone left child of an even length, then __push_heap
adjust_heap(first, len, value) ==
    LET d == adjust_down(first, 0, len)
        lone == len % 2 = 0 /\ d.hole = (len - 2) \div 2
        left == 2 * (d.hole + 1) - 1
        f2 == IF lone THEN [d.first EXCEPT ![d.hole + 1] = d.first[left + 1]] ELSE d.first
        h2 == IF lone THEN left ELSE d.hole
    IN  push_heap(f2, h2, 0, value)

\* priority_queue::push: push_back, then std::push_heap
queuePush(q, timer) == push_heap(Append(q, timer), Len(q), 0, timer)

\* priority_queue::pop: std::pop_heap (the last element goes through the root), then pop_back
queuePop(q) ==
    IF Len(q) <= 1 THEN <<>>
    ELSE LET n == Len(q)
         IN  SubSeq(adjust_heap([q EXCEPT ![n] = q[1]], n - 1, q[n]), 1, n - 1)

\* priority_queue::top
queueTop(q) == q[1]

\* CacheRemovalScheduler::nextTimer
nextTimer == IF queue = <<>> THEN NoTimer ELSE queueTop(queue)

(***************************************************************************)
(* The LRU store, from its contract: get_or_insert, get, remove, reset and *)
(* the eviction that follows an insertion.                                 *)
(***************************************************************************)
RECURSIVE weightOf(_, _)
weightOf(c, ks) ==
    IF ks = {} THEN 0
    ELSE LET k == CHOOSE x \in ks : TRUE
         IN  (IF c[k] = NoEntry THEN 0 ELSE query_weight(c[k])) + weightOf(c, ks \ {k})

\* total weight of the store: the sum of the weights of the entries it holds
storeWeight(c) == weightOf(c, Keys)

\* k becomes the most recently used key
touch(l, k) == Append(SelectSeq(l, LAMBDA x : x # k), k)

\* evict from the least recent end until the weight fits; the most recent entry stays
RECURSIVE removeOverflow(_, _)
removeOverflow(c, l) ==
    IF storeWeight(c) > max_size /\ Len(l) > 1
    THEN removeOverflow([c EXCEPT ![Head(l)] = NoEntry], Tail(l))
    ELSE [cells |-> c, lru |-> l]

\* a remove that, for a key it does not find, takes out the least recent entry
storeRemove_evictingOnMiss(c, l, k) ==
    IF c[k] = NoEntry /\ l # <<>>
    THEN [cells |-> [c EXCEPT ![Head(l)] = NoEntry], lru |-> Tail(l)]
    ELSE [cells |-> [c EXCEPT ![k] = NoEntry], lru |-> SelectSeq(l, LAMBDA x : x # k)]

\* store.remove(key): idempotent
storeRemove(c, l, k) == [cells |-> [c EXCEPT ![k] = NoEntry],
                         lru |-> SelectSeq(l, LAMBDA x : x # k)]

\* history: the entries that were in the store under c and are not under c2 left it by `why`
leftStore(c, c2, why) ==
    [e \in Entries |->
        IF \E k \in Keys : c[k] = e /\ c2[k] # e THEN why ELSE removedBy[e]]

(***************************************************************************)
(* CachePutHolder.                                                         *)
(***************************************************************************)
\* a holder that takes itself for the owner whether or not its factory lambda ran
ctorCanInsert_always(factoryRan) == TRUE

\* can_insert after the constructor: false by default, true when the factory lambda ran
ctorCanInsert(factoryRan) == factoryRan

\* CachePutHolder::CachePutHolder, with the getOrSet it calls (QueryCache::tryPutInCache)
tryPutInCache(h, k) ==
    /\ hpc[h] = "idle"
    /\ \A g \in constructedBefore(h) : hpc[g] # "idle"
    /\ hpc' = [hpc EXCEPT ![h] = "open"]
    /\ hkey' = [hkey EXCEPT ![h] = k]
    /\ overlapped' = [overlapped EXCEPT ![h] = \E g \in Holders : hpc[g] = "open" /\ hkey[g] = k]
    /\ wasReset' = FALSE
    /\ IF cells[k] # NoEntry
       THEN /\ data' = [data EXCEPT ![h] = cells[k]]
            /\ can_insert' = [can_insert EXCEPT ![h] = ctorCanInsert(FALSE)]
            /\ inserted' = [inserted EXCEPT ![h] = FALSE]
            /\ lru' = touch(lru, k)
            /\ UNCHANGED <<cells, entryVars, removedBy>>
       ELSE /\ nentries < MaxEntries
            /\ LET e == nentries + 1
                   r == removeOverflow([cells EXCEPT ![k] = e], touch(lru, k))
               IN  /\ cells' = r.cells
                   /\ lru' = r.lru
                   /\ removedBy' = leftStore(cells, r.cells, "dropped")
                   /\ chunks' = [chunks EXCEPT ![e] = <<>>]
                   /\ is_writing' = [is_writing EXCEPT ![e] = TRUE]
                   /\ nentries' = e
                   /\ data' = [data EXCEPT ![h] = e]
            /\ can_insert' = [can_insert EXCEPT ![h] = ctorCanInsert(TRUE)]
            /\ inserted' = [inserted EXCEPT ![h] = TRUE]
    /\ UNCHANGED <<htimer, hnotify, readerVars, schedVars, now, facadeVars, counterVars,
                   npushed, pushed, corrupted, unserved>>

\* insertChunk without the can_insert test
acceptsChunk_always(h) == TRUE

\* insertChunk line 203: the chunk is taken only while can_insert holds
acceptsChunk(h) == can_insert[h]

\* the per-entry limit taken as exclusive
exceedsEntrySize_atLimit(weight) == weight >= MaxQueryCacheEntrySize

\* the entry weight compared one byte above the per-entry limit
exceedsEntrySize_offByOne(weight) == weight > MaxQueryCacheEntrySize + 1

\* insertChunk line 209: the entry has outgrown the per-entry limit
exceedsEntrySize(weight) == weight > MaxQueryCacheEntrySize

\* the oversized entry is removed but the holder goes on taking chunks
canInsertAfterOversize_kept == TRUE

\* insertChunk line 211: can_insert = false
canInsertAfterOversize == FALSE

\* CachePutHolder::insertChunk
insertChunk(h, chunk) ==
    /\ hpc[h] = "open"
    /\ npushed < MaxPushes
    /\ npushed' = npushed + 1
    /\ pushed' = [pushed EXCEPT ![h] = IF inserted[h] THEN Append(@, chunk) ELSE @]
    /\ IF ~acceptsChunk(h)
       THEN UNCHANGED <<storeVars, entryVars, can_insert, removedBy>>
       ELSE /\ chunks' = [chunks EXCEPT ![data[h]] = Append(@, chunk)]
            /\ UNCHANGED <<is_writing, nentries>>
            /\ IF exceedsEntrySize(sumBytes(chunks[data[h]]) + allocatedBytes(chunk))
               THEN LET r == storeRemove(cells, lru, hkey[h])
                    IN  /\ can_insert' = [can_insert EXCEPT ![h] = canInsertAfterOversize]
                        /\ cells' = r.cells
                        /\ lru' = r.lru
                        /\ removedBy' = leftStore(cells, r.cells, "removed")
               ELSE UNCHANGED <<storeVars, can_insert, removedBy>>
    /\ UNCHANGED <<hpc, hkey, data, htimer, hnotify, readerVars, schedVars, now,
                   facadeVars, counterVars, inserted, overlapped, corrupted, unserved, wasReset>>

\* a destructor that schedules the removal whether or not the holder owns the entry
releaseSchedules_always(h) == TRUE

\* ~CachePutHolder line 194: the destructor acts only while can_insert holds
releaseSchedules(h) == can_insert[h]

\* ~CachePutHolder line 194, then scheduleRemoval lines 89-90: lock, build the timer
release(h) ==
    /\ hpc[h] = "open"
    /\ IF releaseSchedules(h)
       THEN /\ mutex = "free"
            /\ mutex' = h
            /\ htimer' = [htimer EXCEPT ![h] =
                            [time |-> now + EntryPutTimeout(hkey[h]), cache_key |-> hkey[h]]]
            /\ hpc' = [hpc EXCEPT ![h] = "push"]
       ELSE /\ hpc' = [hpc EXCEPT ![h] = "done"]
            /\ UNCHANGED <<mutex, htimer>>
    /\ UNCHANGED <<storeVars, entryVars, hkey, can_insert, data, hnotify, readerVars,
                   queue, timer_cv, process_removal_queue, wpc, awaited_timer, now,
                   facadeVars, counterVars, histVars>>

\* queue.push while the worker is inside its unlocked queue.pop is a data race on the
\* vector: the push either takes effect or is lost
pushOutcomes(q, timer) ==
    IF wpc = "pop" THEN {queuePush(q, timer), q} ELSE {queuePush(q, timer)}

\* scheduleRemoval lines 91-93: push, read the top, unlock
schedulePush(h) ==
    /\ hpc[h] = "push"
    /\ \E q \in pushOutcomes(queue, htimer[h]) :
          /\ queue' = q
          /\ corrupted' = (corrupted \/ q # queuePush(queue, htimer[h]))
          /\ hnotify' = [hnotify EXCEPT ![h] = q # <<>> /\ timerEq(queueTop(q), htimer[h])]
    /\ mutex' = "free"
    /\ unserved' = unserved \cup {htimer[h]}
    /\ hpc' = [hpc EXCEPT ![h] = "notify"]
    /\ UNCHANGED <<storeVars, entryVars, hkey, can_insert, data, htimer, readerVars,
                   timer_cv, process_removal_queue, wpc, awaited_timer, now,
                   facadeVars, counterVars, npushed, pushed, inserted, overlapped, removedBy, wasReset>>

\* scheduleRemoval lines 96-99: notify_one reaches the worker only if it is waiting
scheduleNotify(h) ==
    /\ hpc[h] = "notify"
    /\ timer_cv' = (timer_cv \/ (hnotify[h] /\ wpc = "wait"))
    /\ hnotify' = [hnotify EXCEPT ![h] = FALSE]
    /\ hpc' = [hpc EXCEPT ![h] = "flag"]
    /\ UNCHANGED <<storeVars, entryVars, hkey, can_insert, data, htimer,
                   readerVars, queue, mutex, process_removal_queue, wpc, awaited_timer,
                   now, facadeVars, counterVars, histVars>>

\* a destructor that also sets its entry into the store again
clearWriting_reinserting(h) ==
    /\ hpc[h] = "flag"
    /\ is_writing' = [is_writing EXCEPT ![data[h]] = FALSE]
    /\ cells' = [cells EXCEPT ![hkey[h]] = data[h]]
    /\ lru' = touch(lru, hkey[h])
    /\ hpc' = [hpc EXCEPT ![h] = "done"]
    /\ UNCHANGED <<chunks, nentries, hkey, can_insert, data, htimer, hnotify,
                   readerVars, schedVars, now, facadeVars, counterVars, histVars>>

\* ~CachePutHolder line 197: data->is_writing = false
clearWriting(h) ==
    /\ hpc[h] = "flag"
    /\ is_writing' = [is_writing EXCEPT ![data[h]] = FALSE]
    /\ hpc' = [hpc EXCEPT ![h] = "done"]
    /\ UNCHANGED <<storeVars, chunks, nentries, hkey, can_insert, data, htimer, hnotify,
                   readerVars, schedVars, now, facadeVars, counterVars, histVars>>

(***************************************************************************)
(* CacheReadHolder.                                                        *)
(***************************************************************************)
\* toSingleChunk lines 261-268: append the rows of chunks[i..] to the result
RECURSIVE insertRangesFrom(_, _, _)
insertRangesFrom(result, cs, i) ==
    IF i > Len(cs) THEN result ELSE insertRangesFrom(result \o cs[i], cs, i + 1)

\* toSingleChunk with the loop started one chunk too late
toSingleChunk_fromThird(cs) == IF cs = <<>> THEN <<>> ELSE insertRangesFrom(cs[1], cs, 3)

\* CacheReadHolder::toSingleChunk
toSingleChunk(cs) == IF cs = <<>> THEN <<>> ELSE insertRangesFrom(cs[1], cs, 2)

\* the read holder tests only for the null entry
readable_ignoringFlag(e) == e # NoEntry

\* a read holder that takes an entry without chunks for a missing result
readable_unlessEmpty(e) == ~(e = NoEntry \/ is_writing[e] \/ chunks[e] = <<>>)

\* CacheReadHolder ctor line 235: the entry is there and no longer being written
readable(e) == ~(e = NoEntry \/ is_writing[e])

\* CacheReadHolder ctor line 234: cache->get, which makes the key the most recent
tryReadFromCache(r, k) ==
    /\ rpc[r] = "idle"
    /\ rdata' = [rdata EXCEPT ![r] = cells[k]]
    /\ lru' = IF cells[k] # NoEntry THEN touch(lru, k) ELSE lru
    /\ rpc' = [rpc EXCEPT ![r] = "got"]
    /\ UNCHANGED <<cells, entryVars, holderVars, pipe, schedVars, now, facadeVars, counterVars,
                   histVars>>

\* CacheReadHolder ctor lines 235-240: the flag test and the source
readHolderPipe(r) ==
    /\ rpc[r] = "got"
    /\ pipe' = [pipe EXCEPT ![r] =
                  IF readable(rdata[r])
                  THEN [nonempty |-> TRUE, rows |-> toSingleChunk(chunks[rdata[r]])]
                  ELSE EmptyPipe]
    /\ rpc' = [rpc EXCEPT ![r] = "done"]
    /\ UNCHANGED <<storeVars, entryVars, holderVars, rdata, schedVars, now,
                   facadeVars, counterVars, histVars>>

\* a source that looks its entry up in the store again when it is drained
sourceRows_throughStore(r) ==
    IF \E k \in Keys : cells[k] = rdata[r] THEN pipe[r].rows ELSE <<>>

\* getPipe, and the SourceFromSingleChunk of line 240: the rows the source produces are
\* those of the chunk toSingleChunk built for it when the read holder was constructed
sourceRows(r) == pipe[r].rows

\* the read holder goes out of scope; the reader may read again
readHolderDrop(r) ==
    /\ rpc[r] = "done"
    /\ rpc' = [rpc EXCEPT ![r] = "idle"]
    /\ rdata' = [rdata EXCEPT ![r] = NoEntry]
    /\ pipe' = [pipe EXCEPT ![r] = EmptyPipe]
    /\ UNCHANGED <<storeVars, entryVars, holderVars, schedVars, now, facadeVars, counterVars,
                   histVars>>

\* a reset that clears the execution counters together with the store
reset_clearingCounters ==
    /\ cells' = [k \in Keys |-> NoEntry]
    /\ lru' = <<>>
    /\ removedBy' = leftStore(cells, [k \in Keys |-> NoEntry], "dropped")
    /\ wasReset' = TRUE
    /\ times_executed' = [k \in Keys |-> 0]
    /\ UNCHANGED <<entryVars, holderVars, readerVars, schedVars, now, facadeVars,
                   times_executed_mutex, cpc, ckey, cret, returned,
                   npushed, pushed, inserted, overlapped, corrupted, unserved>>

\* QueryCache::reset
reset ==
    /\ cells' = [k \in Keys |-> NoEntry]
    /\ lru' = <<>>
    /\ removedBy' = leftStore(cells, [k \in Keys |-> NoEntry], "dropped")
    /\ wasReset' = TRUE
    /\ UNCHANGED <<entryVars, holderVars, readerVars, schedVars, now, facadeVars, counterVars,
                   npushed, pushed, inserted, overlapped, corrupted, unserved>>

(***************************************************************************)
(* CacheRemovalScheduler::processRemovalQueue, the worker thread.          *)
(***************************************************************************)
\* line 105: the loop condition
workerCheck ==
    /\ wpc = "check"
    /\ wpc' = IF process_removal_queue THEN "lock" ELSE "exit"
    /\ UNCHANGED <<storeVars, entryVars, holderVars, readerVars, queue, mutex, timer_cv,
                   process_removal_queue, awaited_timer, now, facadeVars, counterVars, histVars>>

\* lines 107-113: lock, peek, and enter wait_until, which releases the mutex
workerWait ==
    /\ wpc = "lock"
    /\ mutex = "free"
    /\ awaited_timer' = nextTimer
    /\ timer_cv' = FALSE
    /\ wpc' = "wait"
    /\ UNCHANGED <<storeVars, entryVars, holderVars, readerVars, queue, mutex,
                   process_removal_queue, now, facadeVars, counterVars, histVars>>

\* wait_until may return on a notification, at the deadline, or spuriously
wakeCauses ==
    {"spurious"}
        \cup (IF timer_cv THEN {"notify"} ELSE {})
        \cup (IF awaited_timer # NoTimer /\ awaited_timer.time <= now THEN {"timeout"} ELSE {})

\* line 113: wait_until returns, holding the mutex again
workerWake ==
    /\ wpc = "wait"
    /\ mutex = "free"
    /\ \E cause \in wakeCauses : mutex' = "worker"
    /\ timer_cv' = FALSE
    /\ wpc' = "woken"
    /\ UNCHANGED <<storeVars, entryVars, holderVars, readerVars, queue,
                   process_removal_queue, awaited_timer, now, facadeVars, counterVars, histVars>>

\* a test of the awaited timer that does not look at the clock
wentOff_anyTimer(timer) == timer # NoTimer

\* line 116: the awaited timer went off
wentOff(timer) == timer # NoTimer /\ timer.time <= now

\* a worker that goes on to pop and remove without unlocking
workerTest_keepingLock ==
    /\ wpc = "woken"
    /\ mutex' = IF wentOff(awaited_timer) THEN mutex ELSE "free"
    /\ wpc' = IF wentOff(awaited_timer) THEN "pop" ELSE "check"
    /\ UNCHANGED <<storeVars, entryVars, holderVars, readerVars, queue, timer_cv,
                   process_removal_queue, awaited_timer, now, facadeVars, counterVars, histVars>>

\* lines 116-118 and the end of the loop body: test the awaited timer, unlock
workerTest ==
    /\ wpc = "woken"
    /\ mutex' = "free"
    /\ wpc' = IF wentOff(awaited_timer) THEN "pop" ELSE "check"
    /\ UNCHANGED <<storeVars, entryVars, holderVars, readerVars, queue, timer_cv,
                   process_removal_queue, awaited_timer, now, facadeVars, counterVars, histVars>>

\* queue.pop without the mutex while a holder is inside scheduleRemoval's locked section
\* is a data race on the vector: the pop either takes effect or is lost
popOutcomes(q) ==
    IF \E h \in Holders : hpc[h] = "push" THEN {queuePop(q), q} ELSE {queuePop(q)}

\* line 119: queue.pop(), after lock.unlock()
workerPop ==
    /\ wpc = "pop"
    /\ queue' \in popOutcomes(queue)
    /\ corrupted' = (corrupted \/ queue' # queuePop(queue))
    /\ wpc' = "remove"
    /\ UNCHANGED <<storeVars, entryVars, holderVars, readerVars, mutex, timer_cv,
                   process_removal_queue, awaited_timer, now, facadeVars, counterVars, npushed,
                   pushed, inserted, overlapped, removedBy, unserved, wasReset>>

\* line 120: cache->remove(awaited_timer->cache_key)
workerRemove ==
    /\ wpc = "remove"
    /\ LET k == awaited_timer.cache_key
           r == storeRemove(cells, lru, k)
       IN  /\ cells' = r.cells
           /\ lru' = r.lru
           /\ removedBy' = leftStore(cells, r.cells, "removed")
           /\ unserved' = {t \in unserved : ~(t.cache_key = k /\ t.time <= now)}
    /\ wpc' = "check"
    /\ UNCHANGED <<entryVars, holderVars, readerVars, queue, mutex, timer_cv,
                   process_removal_queue, awaited_timer, now, facadeVars, counterVars, npushed,
                   pushed, inserted, overlapped, corrupted, wasReset>>

\* wait_until returns because of a notification or of the deadline, not spuriously
workerWakeDue == wakeCauses # {"spurious"} /\ workerWake

(***************************************************************************)
(* QueryCache::~QueryCache: stopProcessingRemovalQueue, then join.         *)
(***************************************************************************)
\* stopProcessingRemovalQueue line 127: process_removal_queue.store(false)
stopFlag ==
    /\ fpc = "alive"
    /\ process_removal_queue' = FALSE
    /\ fpc' = "notify"
    /\ UNCHANGED <<storeVars, entryVars, holderVars, readerVars, queue, mutex, timer_cv,
                   wpc, awaited_timer, now, max_size, counterVars, histVars>>

\* stopProcessingRemovalQueue line 128: notify_one reaches the worker only if it is waiting
stopNotify ==
    /\ fpc = "notify"
    /\ timer_cv' = (timer_cv \/ wpc = "wait")
    /\ fpc' = "join"
    /\ UNCHANGED <<storeVars, entryVars, holderVars, readerVars, queue, mutex,
                   process_removal_queue, wpc, awaited_timer, now, max_size, counterVars,
                   histVars>>

\* ~QueryCache line 310: join returns once the worker thread has left processRemovalQueue
join ==
    /\ fpc = "join"
    /\ wpc = "exit"
    /\ fpc' = "done"
    /\ UNCHANGED <<storeVars, entryVars, holderVars, readerVars, schedVars, now, max_size,
                   counterVars, histVars>>

(***************************************************************************)
(* QueryCache::containsResult and QueryCache::recordQueryRun.              *)
(***************************************************************************)
\* a probe that reports only the entries whose writing has ended
containsValue_completed(k) == cells[k] # NoEntry /\ ~is_writing[cells[k]]

\* QueryCache::containsResult: cache->get(cache_key) != nullptr
containsValue(k) == cells[k] # NoEntry

\* QueryCache::containsResult line 299: the get makes a key that is present the most recent
containsResult(k) ==
    /\ lru' = IF containsValue(k) THEN touch(lru, k) ELSE lru
    /\ UNCHANGED <<cells, entryVars, holderVars, readerVars, schedVars, now, facadeVars,
                   counterVars, histVars>>

\* the recordQueryRun calls begun so far
runsStarted ==
    Len(returned["k1"]) + Len(returned["k2"]) + Cardinality({c \in Callers : cpc[c] # "idle"})

\* a lock_guard that does not wait for the mutex
lockGranted_always(c) == TRUE

\* recordQueryRun line 315: lock_guard waits until times_executed_mutex is free
lockGranted(c) == times_executed_mutex = "free"

\* recordQueryRun line 315: std::lock_guard lock(times_executed_mutex)
recordLock(c, k) ==
    /\ cpc[c] = "idle"
    /\ runsStarted < MaxRuns
    /\ lockGranted(c)
    /\ times_executed_mutex' = c
    /\ ckey' = [ckey EXCEPT ![c] = k]
    /\ cpc' = [cpc EXCEPT ![c] = "locked"]
    /\ UNCHANGED <<storeVars, entryVars, holderVars, readerVars, schedVars, now, facadeVars,
                   times_executed, cret, returned, histVars>>

\* recordQueryRun line 316: ++times_executed[cache_key] reads the counter (0 for a new key)
recordLoad(c) ==
    /\ cpc[c] = "locked"
    /\ cret' = [cret EXCEPT ![c] = times_executed[ckey[c]]]
    /\ cpc' = [cpc EXCEPT ![c] = "loaded"]
    /\ UNCHANGED <<storeVars, entryVars, holderVars, readerVars, schedVars, now, facadeVars,
                   times_executed, times_executed_mutex, ckey, returned, histVars>>

\* recordQueryRun line 316-317: the incremented value is stored and returned, the
\* lock_guard goes out of scope
recordStore(c) ==
    /\ cpc[c] = "loaded"
    /\ times_executed' = [times_executed EXCEPT ![ckey[c]] = cret[c] + 1]
    /\ cret' = [cret EXCEPT ![c] = cret[c] + 1]
    /\ returned' = [returned EXCEPT ![ckey[c]] = Append(@, cret[c] + 1)]
    /\ times_executed_mutex' = "free"
    /\ cpc' = [cpc EXCEPT ![c] = "idle"]
    /\ UNCHANGED <<storeVars, entryVars, holderVars, readerVars, schedVars, now, facadeVars,
                   ckey, histVars>>

\* the clock advances
tick ==
    /\ now < MaxTime
    /\ now' = now + 1
    /\ UNCHANGED <<storeVars, entryVars, holderVars, readerVars, schedVars,
                   facadeVars, counterVars, histVars>>

(***************************************************************************)
(* The cache after QueryCache::QueryCache, and its steps.                  *)
(***************************************************************************)
InitWith(cache_size_in_bytes_) ==
    /\ cells = [k \in Keys |-> NoEntry]
    /\ lru = <<>>
    /\ chunks = [e \in Entries |-> <<>>]
    /\ is_writing = [e \in Entries |-> TRUE]
    /\ nentries = 0
    /\ hpc = [h \in Holders |-> "idle"]
    /\ hkey = [h \in Holders |-> "none"]
    /\ can_insert = [h \in Holders |-> FALSE]
    /\ data = [h \in Holders |-> NoEntry]
    /\ htimer = [h \in Holders |-> NoTimer]
    /\ hnotify = [h \in Holders |-> FALSE]
    /\ rpc = [r \in Readers |-> "idle"]
    /\ rdata = [r \in Readers |-> NoEntry]
    /\ pipe = [r \in Readers |-> EmptyPipe]
    /\ queue = <<>>
    /\ mutex = "free"
    /\ timer_cv = FALSE
    /\ process_removal_queue = TRUE
    /\ wpc = "check"
    /\ awaited_timer = NoTimer
    /\ now = 0
    /\ times_executed = [k \in Keys |-> 0]
    /\ times_executed_mutex = "free"
    /\ cpc = [c \in Callers |-> "idle"]
    /\ ckey = [c \in Callers |-> "none"]
    /\ cret = [c \in Callers |-> 0]
    /\ max_size = cache_size_in_bytes_
    /\ fpc = "alive"
    /\ npushed = 0
    /\ pushed = [h \in Holders |-> <<>>]
    /\ inserted = [h \in Holders |-> FALSE]
    /\ overlapped = [h \in Holders |-> FALSE]
    /\ corrupted = FALSE
    /\ removedBy = [e \in Entries |-> "none"]
    /\ unserved = {}
    /\ returned = [k \in Keys |-> <<>>]
    /\ wasReset = FALSE

Init == InitWith(CacheSizeInBytes)

Next ==
    \/ \E h \in Holders : \E k \in keysOf(h) : tryPutInCache(h, k)
    \/ \E h \in Holders, c \in ChunkValues : insertChunk(h, c)
    \/ \E h \in Holders : release(h)
    \/ \E h \in Holders : schedulePush(h)
    \/ \E h \in Holders : scheduleNotify(h)
    \/ \E h \in Holders : clearWriting(h)
    \/ \E r \in Readers, k \in Keys : tryReadFromCache(r, k)
    \/ \E r \in Readers : readHolderPipe(r)
    \/ \E r \in Readers : readHolderDrop(r)
    \/ reset
    \/ workerCheck
    \/ workerWait
    \/ workerWake
    \/ workerTest
    \/ workerPop
    \/ workerRemove
    \/ tick

Spec == Init /\ [][Next]_vars

(***************************************************************************)
(* The same cache constructed with a maximum total weight below the weight *)
(* of one entry: every insertion of a second key evicts.                   *)
(***************************************************************************)
InitSmall == InitWith(SmallCacheSizeInBytes)

SpecSmall == InitSmall /\ [][Next]_vars

(***************************************************************************)
(* The execution counters alone: threads calling recordQueryRun.           *)
(***************************************************************************)
NextCounter ==
    \/ \E c \in Callers, k \in Keys : recordLock(c, k)
    \/ \E c \in Callers : recordLoad(c)
    \/ \E c \in Callers : recordStore(c)

SpecCounter == Init /\ [][NextCounter]_vars

(***************************************************************************)
(* The counters beside the store: one thread calls recordQueryRun while a  *)
(* writer of k1 pushes and is released, a put holder of k2 is constructed  *)
(* (which evicts k1), a reader reads k1, and reset and the removal worker  *)
(* are at work, on a cache of SmallCacheSizeInBytes.                       *)
(***************************************************************************)
NextFrame ==
    \/ tryPutInCache("h1", "k1")
    \/ tryPutInCache("h2", "k2")
    \/ insertChunk("h1", <<"b", "c">>)
    \/ release("h1")
    \/ schedulePush("h1")
    \/ scheduleNotify("h1")
    \/ clearWriting("h1")
    \/ \E r \in Readers : tryReadFromCache(r, "k1")
    \/ \E r \in Readers : readHolderPipe(r)
    \/ \E r \in Readers : readHolderDrop(r)
    \/ containsResult("k1")
    \/ reset
    \/ workerCheck
    \/ workerWait
    \/ workerWake
    \/ workerTest
    \/ workerPop
    \/ workerRemove
    \/ tick
    \/ \E k \in Keys : recordLock("c1", k)
    \/ recordLoad("c1")
    \/ recordStore("c1")

SpecFrame == InitSmall /\ [][NextFrame]_vars

(***************************************************************************)
(* Writers and readers of results that may outgrow the per-entry limit in  *)
(* a single push, without the removal worker: no timer goes off.           *)
(***************************************************************************)
NextWriter ==
    \/ \E h \in Holders : \E k \in keysOf(h) : tryPutInCache(h, k)
    \/ \E h \in Holders, c \in LargeChunkValues : insertChunk(h, c)
    \/ \E h \in Holders : release(h)
    \/ \E h \in Holders : schedulePush(h)
    \/ \E h \in Holders : scheduleNotify(h)
    \/ \E h \in Holders : clearWriting(h)
    \/ \E r \in Readers, k \in Keys : tryReadFromCache(r, k)
    \/ \E r \in Readers : readHolderPipe(r)
    \/ \E r \in Readers : readHolderDrop(r)
    \/ reset

SpecWriter == Init /\ [][NextWriter]_vars

(***************************************************************************)
(* The scheduler with its shutdown: put holders are released while the     *)
(* facade is destroyed.  Every thread that can take a step eventually      *)
(* takes it; a wait_until returns when it was notified or its deadline has *)
(* come, and is not bound to return spuriously.                            *)
(***************************************************************************)
NextStop ==
    \/ \E h \in Holders : \E k \in keysOf(h) : tryPutInCache(h, k)
    \/ \E h \in Holders : release(h)
    \/ \E h \in Holders : schedulePush(h)
    \/ \E h \in Holders : scheduleNotify(h)
    \/ \E h \in Holders : clearWriting(h)
    \/ workerCheck
    \/ workerWait
    \/ workerWake
    \/ workerTest
    \/ workerPop
    \/ workerRemove
    \/ tick
    \/ stopFlag
    \/ stopNotify
    \/ join

FairStop ==
    /\ \A h \in Holders : WF_vars(schedulePush(h) \/ scheduleNotify(h) \/ clearWriting(h))
    /\ WF_vars(workerCheck) /\ WF_vars(workerWait) /\ WF_vars(workerWakeDue)
    /\ WF_vars(workerTest) /\ WF_vars(workerPop) /\ WF_vars(workerRemove)
    /\ WF_vars(tick)
    /\ WF_vars(stopFlag) /\ WF_vars(stopNotify) /\ WF_vars(join)

SpecStop == Init /\ [][NextStop]_vars /\ FairStop

(***************************************************************************)
(* Properties.                                                             *)
(***************************************************************************)
\* the put holder exists: constructed and not yet destroyed
live(h) == hpc[h] \notin {"idle", "done"}

\* the rows of a sequence of chunks, in order
RECURSIVE rowsOf(_)
rowsOf(cs) == IF cs = <<>> THEN <<>> ELSE Head(cs) \o rowsOf(Tail(cs))

\* C1: at every instant, for every key, at most one live put holder has can_insert = true.
C1_AtMostOneOwningWriter ==
    \A h1, h2 \in Holders :
        (h1 # h2 /\ live(h1) /\ live(h2) /\ hkey[h1] = hkey[h2])
            => ~(can_insert[h1] /\ can_insert[h2])

\* C2: of two put holders of one key, the first constructed on a store without the key,
\* with the key never taken out of the store: exactly one is the owning writer, the other
\* shares its entry and adds nothing to it, and once both are released the entry in the
\* store holds exactly the chunks handed to the owning writer.
C2_OneWriterWins ==
    \A h1, h2 \in Holders :
        (/\ h1 # h2
         /\ hpc[h1] # "idle" /\ hpc[h2] # "idle"
         /\ hkey[h1] = hkey[h2]
         /\ inserted[h1]
         /\ removedBy[data[h1]] = "none" /\ removedBy[data[h2]] = "none")
            => /\ ~inserted[h2] /\ ~can_insert[h2]
               /\ data[h2] = data[h1]
               /\ cells[hkey[h1]] = data[h1]
               /\ chunks[data[h1]] = pushed[h1]

\* C2 witness: two holders of one key were open together, both pushed, both are released,
\* and the entry of the first is still in the store.
C2_Witness ==
    /\ hpc["h1"] = "done" /\ hpc["h2"] = "done"
    /\ hkey["h1"] = hkey["h2"]
    /\ overlapped["h2"]
    /\ inserted["h1"] /\ ~inserted["h2"]
    /\ cells[hkey["h1"]] = data["h1"]
    /\ Len(pushed["h1"]) = 1 /\ npushed = 2

\* C3: a read holder has a result only if its lookup found an entry and that entry is no
\* longer being written; a missing entry or one with is_writing = true gives no result.
C3_NoResultWhileWriting ==
    \A r \in Readers :
        (rpc[r] = "done" /\ pipe[r].nonempty)
            => (rdata[r] # NoEntry /\ ~is_writing[rdata[r]])

\* C3 witness: a read holder found an entry that is still being written and has no result.
C3_Witness ==
    \E r \in Readers :
        /\ rpc[r] = "done" /\ ~pipe[r].nonempty
        /\ rdata[r] # NoEntry /\ is_writing[rdata[r]] /\ chunks[rdata[r]] # <<>>

\* C4: the rows of every result a read holder has are the rows of all the chunks handed to
\* the owning writer of the entry, in push order, and that writer has been released.
C4_ReadYieldsAllBatches ==
    \A r \in Readers :
        (rpc[r] = "done" /\ pipe[r].nonempty)
            => \E h \in Holders :
                  /\ inserted[h] /\ data[h] = rdata[r] /\ hpc[h] = "done"
                  /\ pipe[r].rows = rowsOf(pushed[h])

\* C4 witness: a read holder has the rows of two pushed chunks.
C4_Witness ==
    \E r \in Readers : \E h \in Holders :
        /\ rpc[r] = "done" /\ pipe[r].nonempty
        /\ data[h] = rdata[r] /\ Len(pushed[h]) = 2
        /\ pipe[r].rows = <<"a", "b", "c">>

\* C5: an entry is created with is_writing = true and no chunks; is_writing goes from true
\* to false only in the destructor of the holder whose factory made the entry, and once it
\* is false neither the flag nor the chunks of the entry change again.
C5_EntryLifecycle ==
    [][\A e \in Entries :
          /\ (e > nentries /\ e <= nentries') => (is_writing'[e] /\ chunks'[e] = <<>>)
          /\ (e <= nentries /\ ~is_writing[e]) => (~is_writing'[e] /\ chunks'[e] = chunks[e])
          /\ (e <= nentries /\ is_writing[e] /\ ~is_writing'[e])
                => \E h \in Holders :
                      inserted[h] /\ data[h] = e /\ hpc[h] = "flag" /\ hpc'[h] = "done"]_vars

\* C5 witness: a holder that is not the owner has been handed a chunk for an entry that is
\* complete and holds chunks.
C5_Witness ==
    \E h \in Holders :
        /\ hpc[h] = "open" /\ ~inserted[h]
        /\ ~is_writing[data[h]] /\ chunks[data[h]] # <<>>
        /\ npushed > Len(chunks[data[h]])

\* C6: the total weight of the entries in the store is at most the configured maximum.
C6_WeightWithinMaximum == storeWeight(cells) <= CacheSizeInBytes

\* C7: an entry whose weight exceeds max_query_cache_entry_size is not in the store, and
\* no read holder has a result from it.
C7_OversizedEntryAbsent ==
    \A h \in Holders :
        (hpc[h] # "idle" /\ inserted[h] /\ query_weight(data[h]) > MaxQueryCacheEntrySize)
            => /\ cells[hkey[h]] # data[h]
               /\ \A r \in Readers : (rpc[r] = "done" /\ rdata[r] = data[h]) => ~pipe[r].nonempty

\* C7 witness: the writer of an oversized entry is released and a read of its key, made
\* after that, has no result.
C7_Witness ==
    \E h \in Holders : \E r \in Readers :
        /\ hpc[h] = "done" /\ inserted[h]
        /\ query_weight(data[h]) > MaxQueryCacheEntrySize
        /\ cells[hkey[h]] = NoEntry
        /\ rpc[r] = "done" /\ rdata[r] = NoEntry /\ ~pipe[r].nonempty

\* C8: the worker's store.remove never takes out of the store the entry of a released
\* owning writer whose own deadline (set at that release) has not passed.
C8_NoTimerRemovalBeforeDeadline ==
    [][(wpc = "remove" /\ wpc' = "check")
          => \A h \in Holders :
                (/\ hpc[h] = "done" /\ htimer[h] # NoTimer
                 /\ now < htimer[h].time
                 /\ cells[hkey[h]] = data[h])
                    => cells'[hkey[h]] = data[h]]_vars

\* C9: once the queue is empty and the worker is back at the head of its loop or waiting,
\* store.remove has been executed, at or after the deadline, for the key of every timer
\* that scheduleRemoval pushed (in runs where no data race damaged the queue).
C9_EveryTimerServed ==
    (/\ ~corrupted
     /\ queue = <<>>
     /\ wpc \in {"check", "lock", "wait"}
     /\ \A h \in Holders : hpc[h] # "push")
        => unserved = {}

\* C10: the timer at the top of the queue, the one the worker peeks and pops, has the
\* earliest deadline of the timers queued.
C10_TopIsEarliest ==
    queue # <<>> => \A i \in 1..Len(queue) : queueTop(queue).time <= queue[i].time

\* C11: once stopProcessingRemovalQueue has returned, the worker eventually leaves its
\* loop (so that join returns), unless it is waiting for a deadline that is yet to come.
C11_WorkerExitsAfterStop ==
    (fpc = "join")
        ~> (wpc = "exit" \/ (wpc = "wait" /\ awaited_timer # NoTimer /\ awaited_timer.time > now))

\* the number of positions of the queue that hold the timer t
occurrences(q, t) == Cardinality({i \in 1..Len(q) : q[i] = t})

\* C12: the release of an owning put holder (can_insert still true), whatever it pushed,
\* builds the timer (now + entry_put_timeout, K), adds exactly that one timer to the queue
\* and ends with is_writing = false; the entry, if still in the store, then holds the
\* chunks pushed so far and passes the read holder's test.
C12_OwnerReleaseSchedulesOneTimer ==
    [][\A h \in Holders :
          /\ (hpc[h] = "open" /\ can_insert[h] /\ hpc'[h] # "open")
                => /\ hpc'[h] = "push"
                   /\ htimer'[h] = [time |-> now + EntryPutTimeout(hkey[h]),
                                    cache_key |-> hkey[h]]
          /\ (hpc[h] = "push" /\ hpc'[h] # "push")
                => /\ Len(queue') = Len(queue) + 1
                   /\ occurrences(queue', htimer[h]) = occurrences(queue, htimer[h]) + 1
          /\ (hpc[h] = "flag" /\ hpc'[h] # "flag")
                => /\ hpc'[h] = "done"
                   /\ ~is_writing'[data[h]]
                   /\ chunks'[data[h]] = pushed[h]
                   /\ cells'[hkey[h]] = data[h]
                         => ~(cells'[hkey[h]] = NoEntry \/ is_writing'[cells'[hkey[h]]])]_vars

\* the sequence p is the beginning of the sequence q
isPrefix(p, q) == Len(p) <= Len(q) /\ SubSeq(q, 1, Len(p)) = p

\* C13: a put holder constructed for a key whose entry was already in the store never has
\* can_insert, so that none of its insertChunk calls adds to the entry (the chunks of the
\* entry are chunks handed to the holder whose factory made it), and its destructor goes
\* past scheduleRemoval and is_writing = false: it builds no timer.
C13_NoOpWriter ==
    \A h \in Holders :
        (hpc[h] # "idle" /\ ~inserted[h])
            => /\ ~can_insert[h]
               /\ hpc[h] \in {"open", "done"}
               /\ htimer[h] = NoTimer
               /\ \E g \in Holders :
                     inserted[g] /\ data[g] = data[h] /\ isPrefix(chunks[data[h]], pushed[g])

\* C13 witness: a holder constructed on a complete entry was handed a chunk and released;
\* the entry holds the one chunk of its owner.
C13_Witness ==
    \E h, g \in Holders :
        /\ hpc[h] = "done" /\ ~inserted[h]
        /\ hpc[g] = "done" /\ inserted[g] /\ data[g] = data[h]
        /\ ~is_writing[data[h]]
        /\ Len(pushed[g]) = 1 /\ npushed = 2
        /\ chunks[data[h]] = pushed[g]

\* a push has made the entry that holder h created exceed max_query_cache_entry_size
oversized(h) == inserted[h] /\ query_weight(data[h]) > MaxQueryCacheEntrySize

\* C14: once a push has made its entry exceed max_query_cache_entry_size, the holder has
\* can_insert = false; each later insertChunk on it changes neither the store nor the
\* entry; its destructor builds no timer and leaves is_writing true; the entry is not in
\* the store and no read holder has a result from it.
C14_NothingAfterOversize ==
    [][\A h \in Holders :
          (hpc[h] # "idle" /\ oversized(h))
              => /\ ~can_insert[h]
                 /\ hpc[h] \in {"open", "done"} /\ hpc'[h] \in {"open", "done"}
                 /\ htimer[h] = NoTimer
                 /\ is_writing[data[h]] /\ is_writing'[data[h]]
                 /\ cells[hkey[h]] # data[h]
                 /\ \A r \in Readers : rdata[r] = data[h] => ~pipe[r].nonempty
                 /\ (\E c \in LargeChunkValues : insertChunk(h, c))
                        => (cells' = cells /\ lru' = lru /\ chunks' = chunks)]_vars

\* C14 witness: the first push made the entry oversized, a second push on the same holder
\* was dropped, the holder is released and a read of its key has no result.
C14_Witness ==
    \E h \in Holders : \E r \in Readers :
        /\ hpc[h] = "done" /\ oversized(h)
        /\ Len(pushed[h]) = 2 /\ Len(chunks[data[h]]) = 1
        /\ is_writing[data[h]] /\ queue = <<>>
        /\ cells[hkey[h]] = NoEntry
        /\ rpc[r] = "done" /\ rdata[r] = NoEntry /\ ~pipe[r].nonempty

\* C15: the per-entry limit is inclusive.  A push that brings the entry to exactly
\* max_query_cache_entry_size bytes leaves it in the store with its holder still inserting,
\* and the entry passes the read holder's test once that holder is released; a push that
\* brings it to max_query_cache_entry_size + 1 bytes takes it out of the store.
C15_LimitIsInclusive ==
    [][\A h \in Holders :
          /\ (inserted[h] /\ chunks'[data[h]] # chunks[data[h]])
                => /\ sumBytes(chunks'[data[h]]) = MaxQueryCacheEntrySize
                         => /\ can_insert'[h]
                            /\ cells[hkey[h]] = data[h] => cells'[hkey[h]] = data[h]
                   /\ sumBytes(chunks'[data[h]]) = MaxQueryCacheEntrySize + 1
                         => (~can_insert'[h] /\ cells'[hkey[h]] # data[h])
          /\ (inserted[h] /\ hpc[h] = "done" /\ query_weight(data[h]) = MaxQueryCacheEntrySize)
                => (can_insert[h] /\ readable(data[h]))]_vars

\* C15 witness: an entry of exactly max_query_cache_entry_size bytes is in the store after
\* the release of its writer and a read holder has a result from it.
C15_Witness ==
    \E h \in Holders : \E r \in Readers :
        /\ hpc[h] = "done" /\ inserted[h]
        /\ query_weight(data[h]) = MaxQueryCacheEntrySize
        /\ cells[hkey[h]] = data[h]
        /\ rpc[r] = "done" /\ rdata[r] = data[h] /\ pipe[r].nonempty

\* C16: as long as a read holder has its source, the source produces the same rows,
\* whatever step is taken; and when the entry it was built from is no longer in the store
\* under its key (after reset, a removal by the worker, an eviction or a new write of the
\* key), these are still the rows of all chunks handed to the writer of that entry.
C16_SourceSurvivesStore ==
    [][\A r \in Readers :
          (rpc[r] = "done" /\ pipe[r].nonempty)
              => /\ rpc'[r] = "done" => sourceRows(r)' = sourceRows(r)
                 /\ \A h \in Holders :
                       (inserted[h] /\ data[h] = rdata[r] /\ cells[hkey[h]] # rdata[r])
                           => sourceRows(r) = rowsOf(pushed[h])]_vars

\* C16 witness: a read holder has a source of the rows (b, c); the entry it was built from
\* was dropped from the store and another key's entry is in the store.
C16_Witness ==
    \E r \in Readers : \E h, g \in Holders :
        /\ rpc[r] = "done" /\ pipe[r].nonempty
        /\ inserted[h] /\ data[h] = rdata[r]
        /\ removedBy[rdata[r]] = "dropped" /\ cells[hkey[h]] = NoEntry
        /\ inserted[g] /\ hkey[g] # hkey[h] /\ cells[hkey[g]] = data[g]
        /\ sourceRows(r) = <<"b", "c">>

\* C17: once the writer of an entry is released with its entry in the store, the store has
\* evicted from its least recent end: the total weight is at most the maximum, so that an
\* older entry that does not fit beside the new one is absent.
C17_EvictedAfterWrite ==
    \A h \in Holders :
        (hpc[h] = "done" /\ inserted[h] /\ cells[hkey[h]] = data[h])
            => /\ storeWeight(cells) <= max_size
               /\ \A k \in Keys \ {hkey[h]} :
                     (cells[k] # NoEntry /\ ~is_writing[cells[k]])
                         => query_weight(cells[k]) + query_weight(data[h]) <= max_size

\* C18: the values recordQueryRun has returned for a key are 1, 2, 3, ... in the order of
\* the calls' completion (the first is 1, each next one greater by one, none twice), and
\* the counter of the key is the number of calls completed: no increment is lost.
C18_CounterSequence ==
    \A k \in Keys :
        /\ \A i \in 1..Len(returned[k]) : returned[k][i] = i
        /\ times_executed[k] = Len(returned[k])

\* C18 witness: two calls for k1 and one for k2 have returned.
C18_Witness ==
    /\ returned["k1"] = <<1, 2>>
    /\ returned["k2"] = <<1>>
    /\ \E c \in Callers : cret[c] = 2 /\ ckey[c] = "k1"

\* C19: the counters and the store do not touch each other.  times_executed changes only
\* in the step of recordQueryRun that stores the incremented value, and there only for the
\* key of the call, by one; every step of the store, of the put and read holders, of reset
\* and of the removal worker leaves it as it is; and no step of recordQueryRun changes the
\* store, its entries or the timer queue.
C19_CountersIndependentOfStore ==
    [][/\ times_executed' # times_executed
            => \E c \in Callers :
                  /\ cpc[c] = "loaded" /\ cpc'[c] = "idle"
                  /\ times_executed' = [times_executed EXCEPT ![ckey[c]] = @ + 1]
       /\ cpc' # cpc
            => /\ cells' = cells /\ lru' = lru
               /\ chunks' = chunks /\ is_writing' = is_writing
               /\ queue' = queue]_vars

\* C19 witness: k1 was counted twice and k2 once; the entry of k1 was removed by the
\* worker, the entry of k2 was dropped, and the store was reset.
C19_Witness ==
    /\ times_executed = [k \in Keys |-> IF k = "k1" THEN 2 ELSE 1]
    /\ removedBy[1] = "removed" /\ removedBy[2] = "dropped"
    /\ wasReset

\* C20: from the completion of reset until the next tryPutInCache the store holds no key,
\* whatever else is done (the release of a put holder that was open at the reset
\* included); a read holder constructed in that time finds no entry and has no result.
C20_NoResultAfterReset ==
    [][wasReset
          => /\ \A k \in Keys : cells[k] = NoEntry /\ ~containsValue(k)
             /\ \A r \in Readers :
                   /\ (rpc[r] = "idle" /\ rpc'[r] = "got") => rdata'[r] = NoEntry
                   /\ (rpc[r] = "got" /\ rdata[r] = NoEntry /\ rpc'[r] = "done")
                         => ~pipe'[r].nonempty]_vars

\* C20 witness: after a reset with no tryPutInCache since, a holder whose entry the reset
\* dropped is released (is_writing false, chunks pushed), and a read holder constructed
\* for its key has no result.
C20_Witness ==
    \E h \in Holders : \E r \in Readers :
        /\ wasReset
        /\ hpc[h] = "done" /\ inserted[h] /\ removedBy[data[h]] = "dropped"
        /\ ~is_writing[data[h]] /\ chunks[data[h]] # <<>>
        /\ rpc[r] = "done" /\ rdata[r] = NoEntry /\ ~pipe[r].nonempty

\* C21: containsResult(K) is true exactly when the store holds an entry for K, that is
\* when a put holder made an entry for K that has not left the store, whether or not that
\* entry is still being written; and a read holder that found an entry still being
\* written has no result although containsResult of its key is true.
C21_ContainsIsExistence ==
    /\ \A k \in Keys :
          containsValue(k)
              <=> \E h \in Holders :
                     inserted[h] /\ hkey[h] = k /\ removedBy[data[h]] = "none"
    /\ \A r \in Readers : \A k \in Keys :
          (rpc[r] = "done" /\ rdata[r] # NoEntry /\ cells[k] = rdata[r] /\ is_writing[rdata[r]])
              => (containsValue(k) /\ ~pipe[r].nonempty)

\* C21 witness: the writer of k1 is open and has pushed, a read holder of k1 constructed
\* meanwhile has no result, and containsResult(k1) is true.
C21_Witness ==
    \E r \in Readers :
        /\ hpc["h1"] = "open" /\ inserted["h1"] /\ chunks[data["h1"]] # <<>>
        /\ is_writing[data["h1"]]
        /\ rpc[r] = "done" /\ rdata[r] = data["h1"] /\ ~pipe[r].nonempty
        /\ containsValue("k1")

\* C22: an owning put holder released without any insertChunk leaves, for as long as the
\* entry stays in the store, a complete entry without chunks; a read holder that tests
\* the flag of this entry after the release has a result, and its source produces no row.
C22_EmptyResultCacheable ==
    [][\A h \in Holders :
          (hpc[h] = "done" /\ inserted[h] /\ pushed[h] = <<>>)
              => /\ chunks[data[h]] = <<>> /\ ~is_writing[data[h]]
                 /\ removedBy[data[h]] = "none" => cells[hkey[h]] = data[h]
                 /\ \A r \in Readers :
                       (rpc[r] = "got" /\ rdata[r] = data[h] /\ rpc'[r] = "done")
                           => (pipe'[r].nonempty /\ sourceRows(r)' = <<>>)]_vars

\* C22 witness: the owner of an entry was released without a push, the entry is in the
\* store, and a read holder has a result whose source produces no row.
C22_Witness ==
    \E h \in Holders : \E r \in Readers :
        /\ hpc[h] = "done" /\ inserted[h] /\ pushed[h] = <<>> /\ npushed = 0
        /\ cells[hkey[h]] = data[h]
        /\ rpc[r] = "done" /\ rdata[r] = data[h]
        /\ pipe[r].nonempty /\ sourceRows(r) = <<>>

\* C23: the timer the worker pops is the timer it awaited, whose key it then passes to
\* store.remove (in runs where no data race damaged the queue).
C23_PopsAwaitedTimer ==
    [][(wpc = "pop" /\ wpc' = "remove" /\ ~corrupted')
          => (queue # <<>> /\ queueTop(queue) = awaited_timer)]_vars

\* C24: the queue is touched only under the scheduler mutex: the worker is never at its
\* queue.pop() while a put holder is inside the locked section of scheduleRemoval, about
\* to run queue.push.
C24_HeapOnlyUnderLock ==
    \A h \in Holders : ~(wpc = "pop" /\ hpc[h] = "push" /\ mutex = h)

\* C25: the worker does not hold the scheduler mutex when it calls store.remove, and no
\* thread is inside the store while it holds the scheduler mutex: the worker holds the
\* mutex only between its wakeup and the test of the awaited timer, a put holder only
\* inside scheduleRemoval, and the step either takes with the mutex held leaves the store
\* as it is.
C25_NoLockOverlap ==
    [][/\ (wpc = "remove") => mutex # "worker"
       /\ (mutex = "worker") => (wpc = "woken" /\ (wpc' # wpc => UNCHANGED storeVars))
       /\ \A h \in Holders :
             (mutex = h)
                 => /\ hpc[h] = "push"
                    /\ ~(\E c \in ChunkValues : insertChunk(h, c))
                    /\ (hpc'[h] # hpc[h] => UNCHANGED storeVars)]_vars

\* C25 witness: the worker is at store.remove for a key that is in the store while a put
\* holder holds the scheduler mutex inside scheduleRemoval.
C25_Witness ==
    \E h \in Holders :
        /\ wpc = "remove" /\ cells[awaited_timer.cache_key] # NoEntry
        /\ mutex = h /\ hpc[h] = "push"

\* C26: scheduleRemoval decides to notify timer_cv exactly when the timer it pushed has
\* the earliest deadline of the timers queued (in runs where no data race damaged the
\* queue).
C26_NotifyIffNewMinimum ==
    [][\A h \in Holders :
          (hpc[h] = "push" /\ hpc'[h] = "notify" /\ ~corrupted')
              => (hnotify'[h]
                    <=> \A i \in 1..Len(queue') : htimer[h].time <= queue'[i].time)]_vars

\* C27: the worker is at queue.pop() or at store.remove only with an awaited timer that a
\* scheduleRemoval pushed and whose deadline is at or before the current time; when the
\* awaited timer is not due at the test after a wakeup (a notification or a spurious
\* wakeup before the deadline), the worker goes back to the head of its loop and neither
\* the queue nor the store has changed.
C27_RemovesOnlyExpired ==
    [][/\ (wpc \in {"pop", "remove"})
            => /\ awaited_timer # NoTimer /\ awaited_timer.time <= now
               /\ \E h \in Holders :
                     hpc[h] \in {"notify", "flag", "done"} /\ htimer[h] = awaited_timer
       /\ (wpc = "woken" /\ ~(awaited_timer # NoTimer /\ awaited_timer.time <= now)
             /\ wpc' # wpc)
            => (wpc' = "check" /\ queue' = queue /\ cells' = cells /\ lru' = lru)
       /\ (wpc' # wpc /\ (queue' # queue \/ cells' # cells))
            => (wpc \in {"pop", "remove"})]_vars

\* C27 witness: the worker has removed the entry of a key whose timer was due, then
\* awaited a timer whose deadline is yet to come, woke, and is back at the head of its
\* loop with that timer queued and its key in the store.
C27_Witness ==
    /\ npushed = 0 /\ \E e \in Entries : removedBy[e] = "removed"
    /\ wpc = "check"
    /\ awaited_timer # NoTimer /\ awaited_timer.time > now
    /\ queue # <<>> /\ queueTop(queue) = awaited_timer
    /\ cells[awaited_timer.cache_key] # NoEntry

\* C28: the worker's store.remove for a key that is not in the store (its entry was
\* evicted, dropped by reset or removed before) changes neither the store nor any entry;
\* and in every state, for every key, removing the key twice gives the store that
\* removing it once gives.
C28_RemoveOfAbsentKeyIsNoOp ==
    [][/\ (wpc = "remove" /\ wpc' = "check" /\ cells[awaited_timer.cache_key] = NoEntry)
            => (cells' = cells /\ lru' = lru /\ chunks' = chunks /\ is_writing' = is_writing)
       /\ \A k \in Keys :
             LET once == storeRemove(cells, lru, k)
             IN  storeRemove(once.cells, once.lru, k) = once]_vars

\* C28 witness: the timer of k1 was served by the worker's remove after the entry of k1
\* had been dropped from the store, and the entry of k2 is in the store.
C28_Witness ==
    /\ hpc["h1"] = "done" /\ htimer["h1"] # NoTimer /\ htimer["h1"].time <= now
    /\ unserved = {} /\ queue = <<>>
    /\ removedBy[data["h1"]] = "dropped"
    /\ cells["k2"] # NoEntry

\* C29: an insertChunk that takes an entry out of the store takes out the entry that its
\* own put holder created, not the entry of another writer of the same key.
C29_OversizeRemovesOwnEntry ==
    [][\A h \in Holders :
          (\E c \in LargeChunkValues : insertChunk(h, c))
              => \A k \in Keys : (cells'[k] # cells[k]) => (cells[k] = data[h])]_vars

\* C30: every entry that is in the store and no longer being written weighs at most
\* max_query_cache_entry_size.
C30_CompleteEntriesWithinLimit ==
    \A k \in Keys :
        (cells[k] # NoEntry /\ ~is_writing[cells[k]])
            => query_weight(cells[k]) <= MaxQueryCacheEntrySize

\* C30 witness: a complete entry with a chunk is in the store, and the entry of another
\* put holder, now released, outgrew the limit and is neither in the store nor complete.
C30_Witness ==
    \E h, g \in Holders :
        /\ hpc[h] = "done" /\ inserted[h] /\ cells[hkey[h]] = data[h]
        /\ ~is_writing[data[h]] /\ query_weight(data[h]) > 0
        /\ hpc[g] = "done" /\ oversized(g) /\ is_writing[data[g]]
        /\ \A k \in Keys : cells[k] # data[g]

====
